---------------------------- MODULE Spec2Model ----------------------------
(***************************************************************************)
(* A model of the fixture evaluation service:                              *)
(*   - the decision extractor  (ai_eval.py, summarize_and_decide),         *)
(*   - the tool loop           (match_fundamentals_analyst.py, graph),     *)
(*   - the batch driver and the ai_eval table (ai_eval.py,                *)
(*     ai_eval_yesterday.py: run_ai_eval, upsert_ai_eval).                 *)
(*   - the capabilities         (api_football_tools.py),                   *)
(*   - the scheduler            (fastapi_app.py, _ai_eval_scheduler).      *)
(*                                                                         *)
(* Conventions.  Floats are counted in tenths (8 is 0.8, 17 is 1.7).  A    *)
(* JSON or Python value is a record [t, v]: t is its type and v its        *)
(* payload.  TLC's integers are 32 bits wide, so a Python integer beyond   *)
(* the range of a PostgreSQL INTEGER is the value Big, and the float that  *)
(* is not a number is the value NaN.  A text is a                          *)
(* sequence of tokens: "sp" white space, "txt" prose without braces,      *)
(* "{" and "}", "mem" the members of the JSON object `raw`, "val" a JSON   *)
(* value that is not an object.                                            *)
(***************************************************************************)
EXTENDS Integers, Sequences, FiniteSets, TLC

\* ------------------------------------------------------------ bounds
\* Longest model response, in tokens, the extractor is checked on.
MaxTextLen == 5

\* ------------------------------------------------------------ values
I(n) == [t |-> "int", v |-> n]
F(n) == [t |-> "float", v |-> n]
S(s) == [t |-> "str", v |-> s]
Null == [t |-> "null", v |-> 0]
Big == [t |-> "big", v |-> 0]
\* json.loads reads the literal NaN as float('nan').
NaN == [t |-> "nan", v |-> 0]

Keys == {"if_bet", "predict_winner", "confidence", "key_tag_evidence"}

\* dict.get(key, default)
Get(d, key, default) == IF key \in DOMAIN d THEN d[key] ELSE default

\* The outcome of a call: the value it returns, or the exception it raises.
Ret(x) == [exc |-> "none", val |-> <<x>>]
Raise(e) == [exc |-> e, val |-> <<>>]
Val(r) == r.val[1]

\* Python int(x): a float is truncated toward zero, a string that spells no
\* number is a ValueError, None is a TypeError.
PyInt(x) ==
    CASE x.t = "int" -> Ret(x)
      [] x.t = "big" -> Ret(x)
      [] x.t = "float" -> Ret(I(IF x.v >= 0 THEN x.v \div 10 ELSE -((-x.v) \div 10)))
      [] x.t = "nan" -> Raise("ValueError")
      [] x.t = "str" -> Raise("ValueError")
      [] OTHER -> Raise("TypeError")

\* Python float(x), in tenths.  Big stands for an integer of at least 2^31:
\* as a float it is far above 1.0.
PyFloat(x) ==
    CASE x.t = "int" -> Ret(F(x.v * 10))
      [] x.t = "big" -> Ret(F(2147483647))
      [] x.t = "float" -> Ret(x)
      [] x.t = "nan" -> Ret(x)
      [] x.t = "str" -> Raise("ValueError")
      [] OTHER -> Raise("TypeError")

\* Python str(x): never raises.
PyStr(x) ==
    CASE x.t = "str" -> x.v
      [] x.t = "null" -> "None"
      [] x.t = "big" -> "2147483648"
      [] x.t = "float" -> "float"
      [] x.t = "nan" -> "nan"
      [] OTHER -> ToString(x.v)

\* Python's min and max of two floats: the first argument unless the second
\* compares smaller (greater); every comparison with NaN is False.
Lt(x, y) == x.t # "nan" /\ y.t # "nan" /\ x.v < y.v
Min(a, b) == IF Lt(b, a) THEN b ELSE a
Max(a, b) == IF Lt(a, b) THEN b ELSE a

\* ------------------------------------------------- decision extractor
\* str.strip(): white space removed at both ends.
RECURSIVE LStrip(_)
LStrip(s) == IF s # <<>> /\ Head(s) = "sp" THEN LStrip(Tail(s)) ELSE s
RECURSIVE RStrip(_)
RStrip(s) ==
    IF s # <<>> /\ s[Len(s)] = "sp" THEN RStrip(SubSeq(s, 1, Len(s) - 1)) ELSE s
Strip(s) == RStrip(LStrip(s))

\* White space between JSON tokens is insignificant.
RECURSIVE NoSpace(_)
NoSpace(s) ==
    IF s = <<>> THEN <<>>
    ELSE IF Head(s) = "sp" THEN NoSpace(Tail(s))
    ELSE <<Head(s)>> \o NoSpace(Tail(s))

\* json.loads: an object, another JSON value, or a JSONDecodeError.
JsonLoads(s, raw) ==
    LET t == NoSpace(s) IN
    CASE t = <<"{", "mem", "}">> -> Ret([kind |-> "dict", obj |-> raw])
      [] t = <<"{", "}">> -> Ret([kind |-> "dict", obj |-> <<>>])
      [] t = <<"val">> -> Ret([kind |-> "other", obj |-> <<>>])
      [] OTHER -> Raise("JSONDecodeError")

\* str.find and str.rfind: 0 stands for Python's -1.
Find(s, c) ==
    IF \E i \in 1..Len(s) : s[i] = c
    THEN CHOOSE i \in 1..Len(s) : s[i] = c /\ \A j \in 1..(i - 1) : s[j] # c
    ELSE 0
RFind(s, c) ==
    IF \E i \in 1..Len(s) : s[i] = c
    THEN CHOOSE i \in 1..Len(s) : s[i] = c /\ \A j \in (i + 1)..Len(s) : s[j] # c
    ELSE 0

\* Mutant of parse_json_line: the substring ends at the first "}".
parse_json_line_FirstClose(text, raw) ==
    LET stripped == Strip(text)
        direct == JsonLoads(stripped, raw)
        start == Find(stripped, "{")
        end == Find(stripped, "}")
    IN  IF direct.exc = "none" THEN direct
        ELSE IF start # 0 /\ end # 0 /\ end > start
             THEN JsonLoads(SubSeq(stripped, start, end), raw)
             ELSE direct

parse_json_line(text, raw) ==
    LET stripped == Strip(text)
        direct == JsonLoads(stripped, raw)
        start == Find(stripped, "{")
        end == RFind(stripped, "}")
    IN  IF direct.exc = "none" THEN direct
        ELSE IF start # 0 /\ end # 0 /\ end > start
             THEN JsonLoads(SubSeq(stripped, start, end), raw)
             ELSE direct

DefaultDecision ==
    [if_bet |-> I(0), predict_winner |-> I(1), confidence |-> 0,
     key_tag_evidence |-> ""]

\* Normalize without line 243.
Normalize_NoClamp(obj) ==
    LET b == PyInt(Get(obj, "if_bet", I(0)))
        w == PyInt(Get(obj, "predict_winner", I(1)))
        c == PyFloat(Get(obj, "confidence", F(0)))
        k == PyStr(Get(obj, "key_tag_evidence", S("")))
    IN  IF b.exc # "none" THEN Raise(b.exc)
        ELSE IF w.exc # "none" THEN Raise(w.exc)
        ELSE IF c.exc # "none" THEN Raise(c.exc)
        ELSE Ret([if_bet |-> Val(b), predict_winner |-> Val(w),
                  confidence |-> Val(c).v, key_tag_evidence |-> k])

\* Lines 237-243: the conversions run after the try block.
Normalize(obj) ==
    LET b == PyInt(Get(obj, "if_bet", I(0)))
        w == PyInt(Get(obj, "predict_winner", I(1)))
        c == PyFloat(Get(obj, "confidence", F(0)))
        k == PyStr(Get(obj, "key_tag_evidence", S("")))
    IN  IF b.exc # "none" THEN Raise(b.exc)
        ELSE IF w.exc # "none" THEN Raise(w.exc)
        ELSE IF c.exc # "none" THEN Raise(c.exc)
        ELSE Ret([if_bet |-> Val(b), predict_winner |-> Val(w),
                  confidence |-> Max(F(0), Min(F(10), Val(c))).v,
                  key_tag_evidence |-> k])

\* resp: the extractor model's answer, [fails, text, raw].
summarize_and_decide(resp) ==
    IF resp.fails THEN Ret(DefaultDecision)
    ELSE LET p == parse_json_line(resp.text, resp.raw) IN
         IF p.exc # "none" THEN Ret(DefaultDecision)
         ELSE IF Val(p).kind # "dict" THEN Raise("AttributeError")
         ELSE Normalize(Val(p).obj)

\* ------------------------------------------------------------ state
VARIABLES
    \* decision extractor: the model's answer and what the call returned
    resp, decided,
    \* tool loop: the graph's channels, the node to run next, the supersteps
    \* taken, who called graph.invoke and what the caller got
    messages, fundamentals_repost, node, steps, caller, outcome,
    \* store: the rows of table ai_eval, the server's clock
    ai_eval, clock,
    \* batch runs: each run's locals and the connections it has opened (its
    \* variable `conn` is the last of them); the runs started and the
    \* failures so far, and how many of each a behaviour has; every call of
    \* upsert_ai_eval so far
    runs, conns, starts, faults, limits, calls,
    \* capabilities: the one called, what the data service answered and what
    \* the capability gave back
    tool, reply, tool_result,
    \* scheduler: the coroutine _ai_eval_scheduler, and the time (UTC) in
    \* hours since midnight of the day the application started
    sched, now_utc

extractVars == <<resp, decided>>
graphVars == <<messages, fundamentals_repost, node, steps, caller, outcome>>
batchVars == <<ai_eval, clock, runs, conns, starts, faults, limits, calls>>
toolVars == <<tool, reply, tool_result>>
schedVars == <<sched, now_utc>>
vars == <<resp, decided, messages, fundamentals_repost, node, steps, caller,
          outcome, ai_eval, clock, runs, conns, starts, faults, limits, calls,
          tool, reply, tool_result, sched, now_utc>>

\* ----------------------------------------------------------- tool loop
\* langgraph stops a run that has not reached END after recursion_limit
\* supersteps with GraphRecursionError.  graph.invoke is called without a
\* config, so the limit is the library's default (25); the model scales it
\* and keeps it odd: the analyst runs in the odd supersteps, the last one
\* included.
RecursionLimit == 5
\* Most capability invocations one model turn requests.
MaxToolCalls == 2

Texts == {"", "A", "B"}

HumanMessage == [type |-> "human", content |-> "analyse", tool_calls |-> 0]
AIMessage(content, n) == [type |-> "ai", content |-> content, tool_calls |-> n]
ToolMessage(content) == [type |-> "tool", content |-> content, tool_calls |-> 0]

\* MessagesState declares `messages` with the add_messages reducer: what a
\* node returns under "messages" is appended to the channel.
add_messages(left, right) == left \o right

\* One superstep: the run fails when the limit is used up.
Tick(next) ==
    IF steps + 1 > RecursionLimit
    THEN /\ node' = "GraphRecursionError"
         /\ steps' = steps
    ELSE /\ node' = next
         /\ steps' = steps + 1

\* graph.invoke(initial_state): START -> "Fundamentals Analyst"
Invoke(who) ==
    /\ node = "idle"
    /\ caller' = who
    /\ messages' = <<HumanMessage>>
    /\ fundamentals_repost' = ""
    /\ node' = "Fundamentals Analyst"
    /\ steps' = 1
    /\ UNCHANGED <<outcome, extractVars, batchVars, toolVars,
                   schedVars>>

\* Mutant of should_continue_fundamentals: every response goes to the tools.
should_continue_fundamentals_Always(msgs) == "tools_fundamentals"

\* fundamentals_analyst_node, then the conditional edge.
should_continue_fundamentals(msgs) ==
    IF msgs[Len(msgs)].tool_calls > 0 THEN "tools_fundamentals"
    ELSE "Msg Clear Fundamentals"

fundamentals_analyst_node(content, n) ==
    /\ node = "Fundamentals Analyst"
    /\ LET result == AIMessage(content, n)
           report == IF result.tool_calls = 0 THEN result.content ELSE ""
       IN  /\ messages' = add_messages(messages, <<result>>)
           /\ fundamentals_repost' = report
           /\ Tick(should_continue_fundamentals(messages'))
    /\ UNCHANGED <<caller, outcome, extractVars, batchVars, toolVars,
                   schedVars>>

\* chain.invoke raises (the model endpoint fails): graph.invoke raises.
AnalystRaises ==
    /\ node = "Fundamentals Analyst"
    /\ node' = "ModelError"
    /\ UNCHANGED <<messages, fundamentals_repost, steps, caller, outcome,
                   extractVars, batchVars, toolVars,
                   schedVars>>

\* ToolNode: one tool message per requested call; the content of a message
\* is empty when the capability returned its empty result.  Then the edge
\* back to the analyst.
\* Mutant of ToolResults: only the first requested call is answered.
ToolResults_OnlyFirst(n, empty) ==
    IF n = 0 THEN <<>> ELSE <<ToolMessage(IF 1 \in empty THEN "" ELSE "data")>>

RECURSIVE ToolResults(_, _)
ToolResults(n, empty) ==
    IF n = 0 THEN <<>>
    ELSE ToolResults(n - 1, empty)
         \o <<ToolMessage(IF n \in empty THEN "" ELSE "data")>>

tool_node(empty) ==
    /\ node = "tools_fundamentals"
    /\ LET requested == messages[Len(messages)].tool_calls
       IN  /\ empty \subseteq 1..requested
           /\ messages' = add_messages(messages, ToolResults(requested, empty))
    /\ Tick("Fundamentals Analyst")
    /\ UNCHANGED <<fundamentals_repost, caller, outcome, extractVars, batchVars, toolVars,
                   schedVars>>

\* ToolNode when a capability raises (KeyError, TypeError): depending on the
\* library's version the exception becomes the content of a tool message
\* (tool_node above) or is raised again, and then graph.invoke raises.
ToolNodeRaises ==
    /\ node = "tools_fundamentals"
    /\ node' = "ToolError"
    /\ UNCHANGED <<messages, fundamentals_repost, steps, caller, outcome,
                   extractVars, batchVars, toolVars,
                   schedVars>>

\* How graph.invoke ends when it raises.
Raised == {"GraphRecursionError", "ModelError", "ToolError"}

\* msg_delete_node returns {"messages": []}, then the edge to END.
msg_delete_node ==
    /\ node = "Msg Clear Fundamentals"
    /\ messages' = add_messages(messages, <<>>)
    /\ node' = "END"
    /\ UNCHANGED <<fundamentals_repost, steps, caller, outcome, extractVars, batchVars, toolVars,
                   schedVars>>

\* Mutant of ReportOf: the fallback reads the first message, not the last.
ReportOf_FirstMessage(repost, msgs) ==
    IF repost # "" THEN repost
    ELSE IF msgs # <<>> THEN msgs[1].content
    ELSE ""

\* What the callers read from the state graph.invoke returns.
ReportOf(repost, msgs) ==
    IF repost # "" THEN repost
    ELSE IF msgs # <<>> THEN msgs[Len(msgs)].content
    ELSE ""

\* generate_markdown_report: the report, or the exception of graph.invoke.
generate_markdown_report ==
    /\ caller = "batch"
    /\ outcome.exc = "pending"
    /\ \/ /\ node = "END"
          /\ outcome' = Ret(ReportOf(fundamentals_repost, messages))
       \/ /\ node \in Raised
          /\ outcome' = Raise(node)
    /\ UNCHANGED <<messages, fundamentals_repost, node, steps, caller,
                   extractVars, batchVars, toolVars,
                   schedVars>>

\* Mutant of Handled: no `except HTTPException: raise` clause.
Handled_CatchAll(out) == IF out.exc = "none" THEN out ELSE Raise("HTTP 500")

\* fastapi_app.py lines 64-68: an HTTPException passes, any other exception
\* becomes the HTTPException with status 500.
Handled(out) ==
    IF out.exc = "none" \/ out.exc = "HTTP 502" THEN out ELSE Raise("HTTP 500")

\* get_fundamentals: 200 with the report, 502 for an empty one, 500 when
\* graph.invoke raises.
get_fundamentals ==
    /\ caller = "ondemand"
    /\ outcome.exc = "pending"
    /\ \/ /\ node = "END"
          /\ LET md == ReportOf(fundamentals_repost, messages)
             IN  outcome' = Handled(IF md = "" THEN Raise("HTTP 502") ELSE Ret(md))
       \/ /\ node \in Raised
          /\ outcome' = Handled(Raise(node))
    /\ UNCHANGED <<messages, fundamentals_repost, node, steps, caller,
                   extractVars, batchVars, toolVars,
                   schedVars>>

Pending == [exc |-> "pending", val |-> <<>>]

InitGraph ==
    /\ messages = <<>>
    /\ fundamentals_repost = ""
    /\ node = "idle"
    /\ steps = 0
    /\ caller = "none"
    /\ outcome = Pending

NextGraph ==
    \/ \E who \in {"batch", "ondemand"} : Invoke(who)
    \/ \E content \in Texts, n \in 0..MaxToolCalls :
           fundamentals_analyst_node(content, n)
    \/ AnalystRaises
    \/ \E empty \in SUBSET (1..MaxToolCalls) : tool_node(empty)
    \/ ToolNodeRaises
    \/ msg_delete_node
    \/ generate_markdown_report
    \/ get_fundamentals

\* ------------------------------------------------- extractor, as a run
\* The answers the extractor is checked on: every text of up to MaxTextLen
\* tokens around a few objects, and every object in its plain spelling.
Tokens == {"sp", "txt", "{", "}", "mem", "val"}
TextsUpTo(n) == UNION {[1..k -> Tokens] : k \in 0..n}

IfBetValues == {I(1), I(0), I(2), I(-1)}
PredictWinnerValues ==
    {I(0), I(1), I(3), I(7), I(2), I(-1), S("home"), Null, Big}
ConfidenceValues == {F(8), F(17), F(-3), F(0), F(10), I(1), I(2), NaN, S("high")}
EvidenceValues == {S("a/b")}

\* Every object with a subset of the four keys.
Objects ==
    UNION {
        {o \in [K -> IfBetValues \cup PredictWinnerValues \cup ConfidenceValues
                      \cup EvidenceValues] :
            /\ "if_bet" \in K => o["if_bet"] \in IfBetValues
            /\ "predict_winner" \in K => o["predict_winner"] \in PredictWinnerValues
            /\ "confidence" \in K => o["confidence"] \in ConfidenceValues
            /\ "key_tag_evidence" \in K => o["key_tag_evidence"] \in EvidenceValues}
        : K \in SUBSET Keys}

FullObject ==
    [if_bet |-> I(1), predict_winner |-> I(3), confidence |-> F(8),
     key_tag_evidence |-> S("a/b")]
PartObject == [if_bet |-> I(1), predict_winner |-> I(3), confidence |-> F(8)]

NoAnswer == [fails |-> TRUE, text |-> <<>>, raw |-> <<>>]

InitExtract ==
    /\ decided = Pending
    /\ \/ resp = NoAnswer
       \/ \E text \in TextsUpTo(MaxTextLen), raw \in {FullObject, PartObject} :
              resp = [fails |-> FALSE, text |-> text, raw |-> raw]
       \/ \E raw \in Objects :
              resp = [fails |-> FALSE, text |-> <<"{", "mem", "}">>, raw |-> raw]

Extract ==
    /\ decided = Pending
    /\ decided' = summarize_and_decide(resp)
    /\ UNCHANGED <<resp, graphVars, batchVars, toolVars,
                   schedVars>>

InitExtractIdle ==
    /\ resp = NoAnswer
    /\ decided = Pending

\* -------------------------------------------------------- capabilities
\* Most entries in the "response" list of a body of the data service.
MaxEntries == 2

\* The capabilities bound to the model: those that return a dict and those
\* that return a list.
DictTools == {"get_fixture_basic_info", "get_standing_home_info", "get_standing_away_info"}
ListTools == {"get_fixture_head2head", "get_home_last_10", "get_away_last_10", "get_injuries"}

\* An entry of "response": "full" has every field the capability reads and is
\* about the team asked for, "other" has every field and is about another
\* team, "lacks" has a key missing, "null" has null where an object is read.
EntryKinds == {"full", "other", "lacks", "null"}
Entries == UNION {[1..k -> EntryKinds] : k \in 0..MaxEntries}

\* What requests.get and response.json() do: the request fails, the status
\* is an error, the body is no JSON, or the body is a JSON value: null, a
\* number, an object without "response", an object with a "response" list.
Bodies ==
    {[json |-> "null", response |-> <<>>], [json |-> "number", response |-> <<>>],
     [json |-> "object", response |-> <<>>]}
    \cup {[json |-> "response", response |-> es] : es \in Entries}
Replies ==
    {[kind |-> k, body |-> [json |-> "null", response |-> <<>>]] :
        k \in {"network error", "http error", "unparsable"}}
    \cup {[kind |-> "ok", body |-> b] : b \in Bodies}

\* APIFootballClient._make_request: the parsed body, or None.
None == [json |-> "null", response |-> <<>>]
make_request(r) == IF r.kind = "ok" THEN r.body ELSE None

\* `not data or 'response' not in data`; the test raises on a number.
NoResponse(data) == data.json \in {"null", "object"}

\* Reading the fields of one entry.
ReadEntry(e) ==
    CASE e = "lacks" -> Raise("KeyError")
      [] e = "null" -> Raise("TypeError")
      [] OTHER -> Ret(e)

\* get_fixture_basic_info: the fields of data['response'][0].
get_fixture_basic_info(data) ==
    IF data.json = "number" THEN Raise("TypeError")
    ELSE IF NoResponse(data) \/ data.response = <<>> THEN Ret(<<>>)
    ELSE LET fixture == ReadEntry(data.response[1])
         IN  IF fixture.exc # "none" THEN fixture ELSE Ret(<<"info">>)

\* get_standing_home_info, get_standing_away_info: the first standing of the
\* team asked for.
RECURSIVE FindStanding(_)
FindStanding(es) ==
    IF es = <<>> THEN Ret(<<>>)
    ELSE LET league_standing == ReadEntry(Head(es))
         IN  IF league_standing.exc # "none" THEN league_standing
             ELSE IF Head(es) = "full" THEN Ret(<<"info">>)
             ELSE FindStanding(Tail(es))

get_standing_info(data) ==
    IF data.json = "number" THEN Raise("TypeError")
    ELSE IF NoResponse(data) \/ data.response = <<>> THEN Ret(<<>>)
    ELSE FindStanding(data.response)

\* get_fixture_head2head, get_home_last_10, get_away_last_10, get_injuries:
\* one item per entry, an entry that raises KeyError is passed over.
RECURSIVE ExtractAll(_)
ExtractAll(es) ==
    IF es = <<>> THEN Ret(<<>>)
    ELSE LET item == ReadEntry(Head(es))
             rest == ExtractAll(Tail(es))
         IN  IF item.exc = "KeyError" THEN rest
             ELSE IF item.exc # "none" THEN item
             ELSE IF rest.exc # "none" THEN rest
             ELSE Ret(<<"info">> \o Val(rest))

get_list(data) ==
    IF data.json = "number" THEN Raise("TypeError")
    ELSE IF NoResponse(data) THEN Ret(<<>>)
    ELSE ExtractAll(data.response)

Capability(name, r) ==
    LET data == make_request(r)
    IN  CASE name = "get_fixture_basic_info" -> get_fixture_basic_info(data)
          [] name \in DictTools -> get_standing_info(data)
          [] OTHER -> get_list(data)

InitTools ==
    /\ tool \in DictTools \cup ListTools
    /\ reply \in Replies
    /\ tool_result = Pending

InitToolsIdle ==
    /\ tool = "none"
    /\ reply = [kind |-> "none", body |-> None]
    /\ tool_result = Pending

\* The tool node calls the capability.
CallTool ==
    /\ tool_result = Pending
    /\ tool_result' = Capability(tool, reply)
    /\ UNCHANGED <<tool, reply, extractVars, graphVars, batchVars, schedVars>>

\* -------------------------------------------------------------- store
\* A connection: status "open", "closed" (conn.close()) or "bad" (lost: the
\* driver marks it closed); txn "idle", "intrans" or "inerror" (a statement
\* failed and nothing rolled back); now, the time its transaction began;
\* pending, the row its transaction has written and not committed.
NewConn == [status |-> "open", txn |-> "idle", now |-> 0, pending |-> <<>>]

\* The first statement after a commit or rollback begins a transaction.
Begun(c) == IF c.txn = "idle" THEN [c EXCEPT !.txn = "intrans", !.now = clock + 1] ELSE c
Committed(c) == [c EXCEPT !.txn = "idle", !.pending = <<>>]
RolledBack(c) == [c EXCEPT !.txn = "idle", !.pending = <<>>]
Failed(c) == [c EXCEPT !.txn = "inerror", !.pending = <<>>]
Closed(c) == [c EXCEPT !.status = "closed", !.txn = "idle", !.pending = <<>>]
Lost(c) == [c EXCEPT !.status = "bad", !.txn = "idle", !.pending = <<>>]

\* INSERT ... ON CONFLICT (fixture_id) DO UPDATE SET ...: NOW() is the time
\* the transaction began.
Exists(table, f) == \E row \in table : row.fixture_id = f

NewRow(p) ==
    [fixture_id |-> p.fixture_id, report_md |-> p.report_md,
     if_bet |-> p.if_bet, predict_winner |-> p.predict_winner,
     confidence |-> p.confidence, key_tag_evidence |-> p.key_tag_evidence,
     created_at |-> p.now, updated_at |-> p.now]

\* Mutants of UpsertRow: the conflict clause also sets created_at; there is
\* no conflict clause and no key; the conflict clause leaves report_md out.
UpsertRow_SetsCreatedAt(table, p) ==
    {row \in table : row.fixture_id # p.fixture_id} \cup {NewRow(p)}

UpsertRow_PlainInsert(table, p) == table \cup {NewRow(p)}

UpsertRow_KeepsReport(table, p) ==
    IF Exists(table, p.fixture_id)
    THEN {IF row.fixture_id = p.fixture_id
          THEN [NewRow(p) EXCEPT !.report_md = row.report_md,
                                 !.created_at = row.created_at]
          ELSE row : row \in table}
    ELSE table \cup {NewRow(p)}

UpsertRow(table, p) ==
    IF Exists(table, p.fixture_id)
    THEN {IF row.fixture_id = p.fixture_id
          THEN [row EXCEPT !.report_md = p.report_md, !.if_bet = p.if_bet,
                           !.predict_winner = p.predict_winner,
                           !.confidence = p.confidence,
                           !.key_tag_evidence = p.key_tag_evidence,
                           !.updated_at = p.now]
          ELSE row : row \in table}
    ELSE table \cup {NewRow(p)}

\* The parameters upsert_ai_eval passes (lines 271-278).
Params(fid, md, decision) ==
    [fixture_id |-> fid, report_md |-> md,
     if_bet |-> Val(PyInt(decision["if_bet"])),
     predict_winner |-> Val(PyInt(decision["predict_winner"])),
     confidence |-> decision["confidence"],
     key_tag_evidence |-> Get(decision, "key_tag_evidence", "")]

\* Columns if_bet and predict_winner are INTEGER: a wider value is rejected.
OutOfRange(p) == p.if_bet.t = "big" \/ p.predict_winner.t = "big"

Staged(p, now) ==
    [fixture_id |-> p.fixture_id, report_md |-> p.report_md,
     if_bet |-> p.if_bet.v, predict_winner |-> p.predict_winner.v,
     confidence |-> p.confidence, key_tag_evidence |-> p.key_tag_evidence,
     now |-> now]

\* ------------------------------------------------------- batch driver
\* Batch runs started in one behaviour.
MaxRuns == 2
\* Failures (of a model, of the store, of the network) in one behaviour.
MaxFaults == 2
\* The last day, counted from the first, on which a run selects candidates.
MaxDay == 1

\* Two runs at a time at most: the scheduler's and one more.
RunIds == {1, 2}

\* LEAGUE_IDS, as parse_league_ids reads it.
parse_league_ids == {39}

\* Table api_football_fixtures; fixture_date in days from today (UTC).
api_football_fixtures ==
    {[fixture_id |-> 101, league_id |-> 39, fixture_date |-> 0],
     [fixture_id |-> 102, league_id |-> 39, fixture_date |-> 1],
     [fixture_id |-> 103, league_id |-> 140, fixture_date |-> 1],
     [fixture_id |-> 104, league_id |-> 39, fixture_date |-> 2],
     [fixture_id |-> 105, league_id |-> 39, fixture_date |-> -1]}

\* ORDER BY fixture_id ASC
RECURSIVE SortAsc(_)
SortAsc(ids) ==
    IF ids = {} THEN <<>>
    ELSE LET m == CHOOSE x \in ids : \A y \in ids : x <= y
         IN  <<m>> \o SortAsc(ids \ {m})

\* Mutant of FixturesBetween: fixture_date <= end.
FixturesBetween_Closed(startDay, endDay) ==
    SortAsc({f.fixture_id : f \in {g \in api_football_fixtures :
        /\ g.league_id \in parse_league_ids
        /\ g.fixture_date >= startDay
        /\ g.fixture_date <= endDay}})

FixturesBetween(startDay, endDay) ==
    SortAsc({f.fixture_id : f \in {g \in api_football_fixtures :
        /\ g.league_id \in parse_league_ids
        /\ g.fixture_date >= startDay
        /\ g.fixture_date < endDay}})

\* ai_eval.py: tomorrow, every fixture.
fetch_tomorrow_fixture_ids(today) == FixturesBetween(today + 1, today + 2)

\* Mutant of fetch_recent_fixture_ids: no second query, nothing filtered.
fetch_recent_fixture_ids_Unfiltered(today, table) == FixturesBetween(today, today + 2)

\* ai_eval_yesterday.py: today and tomorrow, without the fixtures that have
\* a row in ai_eval.
fetch_recent_fixture_ids(today, table) ==
    LET all_fixture_ids == FixturesBetween(today, today + 2)
        existing_fixture_ids ==
            {row.fixture_id : row \in {x \in table :
                \E i \in 1..Len(all_fixture_ids) : all_fixture_ids[i] = x.fixture_id}}
    IN  SelectSeq(all_fixture_ids, LAMBDA fid : fid \notin existing_fixture_ids)

\* The report the analyst writes in the n-th run: a text of its own.
Report(n) == "report " \o ToString(n)

\* What the extractor's model answers in a batch run.
OtherObject ==
    [if_bet |-> I(0), predict_winner |-> I(0), confidence |-> F(17),
     key_tag_evidence |-> S("c")]
OddObject == [if_bet |-> I(2), predict_winner |-> I(7), confidence |-> F(-3)]
SparseObject == [predict_winner |-> I(3)]
NaNObject == [if_bet |-> I(-1), confidence |-> NaN]
GoodAnswers ==
    {[fails |-> FALSE, text |-> <<"{", "mem", "}">>, raw |-> raw] :
        raw \in {FullObject, OtherObject}}
\* Answers that are objects and not what the prompt asks for.
OddAnswers ==
    {[fails |-> FALSE, text |-> <<"{", "mem", "}">>, raw |-> raw] :
        raw \in {OddObject, SparseObject, NaNObject}}
BadAnswers ==
    {NoAnswer,
     [fails |-> FALSE, text |-> <<"txt">>, raw |-> <<>>],
     [fails |-> FALSE, text |-> <<"{", "mem", "}">>,
      raw |-> [if_bet |-> I(1), predict_winner |-> S("home")]],
     [fails |-> FALSE, text |-> <<"{", "mem", "}">>,
      raw |-> [if_bet |-> I(1), predict_winner |-> Big, confidence |-> F(8)]]}

\* A run's locals, and what is remembered of it: the day on which it
\* selected its candidates, the fixtures that had a row then (at_fetch) and
\* the fixtures for which a commit of the run took effect (written).
IdleRun ==
    [kind |-> "none", no |-> 0, pc |-> "idle", fixture_ids |-> <<>>, idx |-> 0,
     md |-> "", decision |-> <<>>, attempt |-> 0, results |-> <<>>, log |-> <<>>,
     today |-> 0, at_fetch |-> {}, written |-> {}]

Ended == {"idle", "returned", "raised"}

Conn(r) == conns[r][Len(conns[r])]
SetConn(r, c) == [conns EXCEPT ![r][Len(conns[r])] = c]
Fid(r) == runs[r].fixture_ids[runs[r].idx]

\* A run's log: what it called, for which fixture, with which arguments, and
\* the exception the call raised ("none": it returned).
LoggedWith(run, op, exc, args) ==
    [run EXCEPT !.log = Append(@,
        [op |-> op, exc |-> exc,
         fid |-> IF run.idx \in 1..Len(run.fixture_ids)
                 THEN run.fixture_ids[run.idx] ELSE 0,
         args |-> args])]
Logged(run, op, exc) ==
    LoggedWith(run, op, exc,
               IF op = "upsert" THEN <<run.md, run.decision[1]>> ELSE <<>>)

\* Mutant of Skip: the exception leaves the loop.
Skip_Aborts(run) == [run EXCEPT !.pc = "raised"]

\* The handler of the loop body (lines 324-325): log, go to the next fixture.
Skip(run) == [run EXCEPT !.pc = "loop", !.idx = @ + 1, !.attempt = 0]

\* An OperationalError out of upsert_ai_eval: the first attempt goes to the
\* reconnect (lines 313-322), the second to the handler of the loop body.
\* Mutant of OnOperationalError: every failed attempt goes to the reconnect.
OnOperationalError_AlwaysRetries(run) == [run EXCEPT !.pc = "reconnect"]

OnOperationalError(run) ==
    IF run.attempt = 1 THEN [run EXCEPT !.pc = "reconnect"] ELSE Skip(run)

Fault == faults < limits.faults /\ faults' = faults + 1

\* A run begins in a free slot; the second slot is used only beside the first.
CanStart(r) ==
    /\ runs[r].pc \in Ended
    /\ starts < limits.runs
    /\ r = 1 \/ runs[1].pc \notin Ended

\* The latest day a run has seen: time does not go back.
LastDay == CHOOSE d \in {runs[q].today : q \in RunIds} :
               \A q \in RunIds : runs[q].today <= d

Started(kind) ==
    [IdleRun EXCEPT !.kind = kind, !.no = starts + 1, !.today = LastDay]

\* run_ai_eval, line 293: get_db_conn()
Begin(r, kind) ==
    /\ CanStart(r)
    /\ starts' = starts + 1
    /\ runs' = [runs EXCEPT ![r] =
           Logged([Started(kind) EXCEPT !.pc = "ensure"], "connect", "none")]
    /\ conns' = [conns EXCEPT ![r] = <<NewConn>>]
    /\ UNCHANGED <<ai_eval, clock, faults, limits, calls>>

BeginFails(r, kind) ==
    /\ CanStart(r)
    /\ starts' = starts + 1
    /\ Fault
    /\ runs' = [runs EXCEPT ![r] =
           Logged([Started(kind) EXCEPT !.pc = "raised"], "connect", "OperationalError")]
    /\ conns' = [conns EXCEPT ![r] = <<>>]
    /\ UNCHANGED <<ai_eval, clock, limits, calls>>

\* A run started from the command line (python ai_eval.py, ai_eval_yesterday.py).
Start(r, kind) ==
    Begin(r, kind) /\ UNCHANGED <<extractVars, graphVars, toolVars, schedVars>>

StartFails(r, kind) ==
    BeginFails(r, kind) /\ UNCHANGED <<extractVars, graphVars, toolVars, schedVars>>

\* line 295: ensure_ai_eval_table(conn), which commits
EnsureTable(r) ==
    /\ runs[r].pc = "ensure"
    /\ runs' = [runs EXCEPT ![r] = Logged([@ EXCEPT !.pc = "fetch"], "ensure", "none")]
    /\ UNCHANGED <<ai_eval, clock, conns, starts, faults, limits, calls,
                   extractVars, graphVars, toolVars,
                   schedVars>>

\* ... or raises: the finally clause closes the connection.
EnsureTableFails(r) ==
    /\ runs[r].pc = "ensure"
    /\ Fault
    /\ runs' = [runs EXCEPT ![r] =
           Logged([@ EXCEPT !.pc = "raised"], "ensure", "OperationalError")]
    /\ conns' = SetConn(r, Closed(Conn(r)))
    /\ UNCHANGED <<ai_eval, clock, starts, limits, calls, extractVars, graphVars, toolVars,
                   schedVars>>

\* line 296: the SELECTs begin a transaction that nothing commits.
Fetch(r, today) ==
    /\ runs[r].pc = "fetch"
    /\ today \in LastDay..limits.days
    /\ LET ids == IF runs[r].kind = "upcoming" THEN fetch_tomorrow_fixture_ids(today)
                  ELSE fetch_recent_fixture_ids(today, ai_eval)
       IN  runs' = [runs EXCEPT ![r] =
               [Logged(@, "fetch", "none") EXCEPT
                   !.pc = "loop", !.fixture_ids = ids, !.idx = 1,
                   !.today = today, !.at_fetch = {row.fixture_id : row \in ai_eval}]]
    /\ conns' = SetConn(r, Begun(Conn(r)))
    /\ clock' = clock + 1
    /\ UNCHANGED <<ai_eval, starts, faults, limits, calls, extractVars, graphVars, toolVars,
                   schedVars>>

\* Mutant of FetchFails: no finally clause.
FetchFails_Leaks(r) ==
    /\ runs[r].pc = "fetch"
    /\ Fault
    /\ runs' = [runs EXCEPT ![r] =
           Logged([@ EXCEPT !.pc = "raised"], "fetch", "OperationalError")]
    /\ UNCHANGED <<ai_eval, clock, conns, starts, limits, calls, extractVars, graphVars, toolVars,
                   schedVars>>

FetchFails(r) ==
    /\ runs[r].pc = "fetch"
    /\ Fault
    /\ runs' = [runs EXCEPT ![r] =
           Logged([@ EXCEPT !.pc = "raised"], "fetch", "OperationalError")]
    /\ conns' = SetConn(r, Closed(Conn(r)))
    /\ UNCHANGED <<ai_eval, clock, starts, limits, calls, extractVars, graphVars, toolVars,
                   schedVars>>

\* line 304: generate_markdown_report(fid) returns a report, or "" ...
Generate(r, empty) ==
    /\ runs[r].pc = "loop"
    /\ runs[r].idx <= Len(runs[r].fixture_ids)
    /\ IF empty THEN Fault ELSE UNCHANGED faults
    /\ LET md == IF empty THEN "" ELSE Report(runs[r].no)
       IN  runs' = [runs EXCEPT ![r] =
               [LoggedWith(@, "generate", "none", <<md>>) EXCEPT
                   !.pc = "decide", !.decision = <<>>, !.md = md]]
    /\ UNCHANGED <<ai_eval, clock, conns, starts, limits, calls, extractVars,
                   graphVars, toolVars,
                   schedVars>>

\* ... or raises (graph.invoke raised).
GenerateRaises(r) ==
    /\ runs[r].pc = "loop"
    /\ runs[r].idx <= Len(runs[r].fixture_ids)
    /\ Fault
    /\ runs' = [runs EXCEPT ![r] = Skip(Logged(@, "generate", "Exception"))]
    /\ UNCHANGED <<ai_eval, clock, conns, starts, limits, calls, extractVars,
                   graphVars, toolVars,
                   schedVars>>

\* Mutant of ShortCircuit: the extractor is called on the empty report.
ShortCircuit_Extracts(r) ==
    /\ runs[r].pc = "decide"
    /\ runs[r].md = ""
    /\ runs' = [runs EXCEPT ![r] =
           [LoggedWith(@, "summarize", "none", <<NoAnswer>>) EXCEPT
               !.pc = "upsert", !.attempt = 1,
               !.decision = <<Val(summarize_and_decide(NoAnswer))>>]]
    /\ UNCHANGED <<ai_eval, clock, conns, starts, faults, limits, calls,
                   extractVars, graphVars, toolVars,
                   schedVars>>

\* Mutant of ShortCircuit: the decision taken for an empty report is a bet.
ShortCircuit_Bets(r) ==
    /\ runs[r].pc = "decide"
    /\ runs[r].md = ""
    /\ runs' = [runs EXCEPT ![r] =
           [@ EXCEPT !.pc = "upsert", !.attempt = 1,
                     !.decision = <<[if_bet |-> I(1), predict_winner |-> I(1),
                                     confidence |-> 0]>>]]
    /\ UNCHANGED <<ai_eval, clock, conns, starts, faults, limits, calls,
                   extractVars, graphVars, toolVars,
                   schedVars>>

\* lines 305-306: an empty report takes the decision without the extractor
ShortCircuit(r) ==
    /\ runs[r].pc = "decide"
    /\ runs[r].md = ""
    /\ runs' = [runs EXCEPT ![r] =
           [@ EXCEPT !.pc = "upsert", !.attempt = 1,
                     !.decision = <<[if_bet |-> I(0), predict_winner |-> I(1),
                                     confidence |-> 0]>>]]
    /\ UNCHANGED <<ai_eval, clock, conns, starts, faults, limits, calls,
                   extractVars, graphVars, toolVars,
                   schedVars>>

\* lines 307-308: summarize_and_decide(md, fid)
Summarize(r, answer) ==
    /\ runs[r].pc = "decide"
    /\ runs[r].md # ""
    /\ IF answer \notin GoodAnswers THEN Fault ELSE UNCHANGED faults
    /\ LET out == summarize_and_decide(answer)
       IN  runs' = [runs EXCEPT ![r] =
               IF out.exc = "none"
               THEN [LoggedWith(@, "summarize", "none", <<answer>>) EXCEPT
                        !.pc = "upsert", !.attempt = 1, !.decision = <<Val(out)>>]
               ELSE Skip(LoggedWith(@, "summarize", out.exc, <<answer>>))]
    /\ UNCHANGED <<ai_eval, clock, conns, starts, limits, calls, extractVars,
                   graphVars, toolVars,
                   schedVars>>

\* Another connection's uncommitted row for the same fixture blocks the INSERT.
Blocked(r, fid) ==
    \E q \in RunIds \ {r} : \E i \in 1..Len(conns[q]) :
        conns[q][i].pending # <<>> /\ conns[q][i].pending[1].fixture_id = fid

Called(r) ==
    calls \cup {[fid |-> Fid(r), md |-> runs[r].md, decision |-> runs[r].decision[1]]}

\* upsert_ai_eval up to cur.execute (lines 257-279)
UpsertExecute(r) ==
    /\ runs[r].pc = "upsert"
    /\ calls' = Called(r)
    /\ LET c == Conn(r)
           p == Params(Fid(r), runs[r].md, runs[r].decision[1])
       IN  IF c.status # "open"
           THEN \* conn.cursor() raises: the connection is closed
                /\ runs' = [runs EXCEPT ![r] = Skip(Logged(@, "upsert", "InterfaceError"))]
                /\ UNCHANGED <<conns, clock>>
           ELSE IF c.txn = "inerror"
           THEN \* the transaction is aborted: commands are ignored
                /\ runs' = [runs EXCEPT ![r] = Skip(Logged(@, "upsert", "InternalError"))]
                /\ UNCHANGED <<conns, clock>>
           ELSE IF OutOfRange(p)
           THEN \* integer out of range: nothing rolls the transaction back
                /\ runs' = [runs EXCEPT ![r] = Skip(Logged(@, "upsert", "DataError"))]
                /\ conns' = SetConn(r, Failed(Begun(c)))
                /\ clock' = IF c.txn = "idle" THEN clock + 1 ELSE clock
           ELSE /\ ~Blocked(r, Fid(r))
                /\ runs' = [runs EXCEPT ![r] =
                       [Logged(@, "upsert", "none") EXCEPT !.pc = "commit"]]
                /\ conns' = SetConn(r, [Begun(c) EXCEPT
                                !.pending = <<Staged(p, Begun(c).now)>>])
                /\ clock' = IF c.txn = "idle" THEN clock + 1 ELSE clock
    /\ UNCHANGED <<ai_eval, starts, faults, limits, extractVars, graphVars, toolVars,
                   schedVars>>

\* The statement fails with an OperationalError: the connection is lost, or
\* the statement is cancelled (a timeout) and lines 282-288 roll back.
UpsertExecuteFails(r, how) ==
    /\ runs[r].pc = "upsert"
    /\ Conn(r).status = "open" /\ Conn(r).txn # "inerror"
    /\ Fault
    /\ calls' = Called(r)
    /\ runs' = [runs EXCEPT ![r] =
           OnOperationalError(Logged(@, "upsert", "OperationalError"))]
    /\ conns' = SetConn(r, IF how = "lost" THEN Lost(Conn(r)) ELSE RolledBack(Conn(r)))
    /\ UNCHANGED <<ai_eval, clock, starts, limits, extractVars, graphVars, toolVars,
                   schedVars>>

\* Mutant of Appended: the entry goes to the front of the list.
Appended_AtFront(run) ==
    [run EXCEPT !.results =
        <<[fixture_id |-> run.fixture_ids[run.idx]] @@ run.decision[1]>> \o @]

\* line 323: results.append({"fixture_id": fid, **decision})
Appended(run) ==
    [run EXCEPT !.results =
        Append(@, [fixture_id |-> run.fixture_ids[run.idx]] @@ run.decision[1])]

\* conn.commit() (line 280), then results.append (line 323)
UpsertCommit(r) ==
    /\ runs[r].pc = "commit"
    /\ ai_eval' = UpsertRow(ai_eval, Conn(r).pending[1])
    /\ conns' = SetConn(r, Committed(Conn(r)))
    /\ runs' = [runs EXCEPT ![r] =
           [Appended(Logged(@, "commit", "none")) EXCEPT
               !.pc = "loop", !.idx = @ + 1, !.attempt = 0,
               !.written = @ \cup {Fid(r)}]]
    /\ UNCHANGED <<clock, starts, faults, limits, calls, extractVars, graphVars, toolVars,
                   schedVars>>

\* The connection is lost in conn.commit(): the server has committed the
\* transaction (applied) or it has not.
UpsertCommitFails(r, applied) ==
    /\ runs[r].pc = "commit"
    /\ Fault
    /\ ai_eval' = IF applied THEN UpsertRow(ai_eval, Conn(r).pending[1]) ELSE ai_eval
    /\ runs' = [runs EXCEPT ![r] =
           OnOperationalError(
               [Logged(@, "commit", "OperationalError") EXCEPT
                   !.written = IF applied THEN @ \cup {Fid(r)} ELSE @])]
    /\ conns' = SetConn(r, Lost(Conn(r)))
    /\ UNCHANGED <<clock, starts, limits, calls, extractVars, graphVars, toolVars,
                   schedVars>>

\* Mutant of Reconnect: the second attempt follows without line 320.
Reconnect_NoEnsure(r) ==
    /\ runs[r].pc = "reconnect"
    /\ runs' = [runs EXCEPT ![r] =
           Logged([@ EXCEPT !.pc = "upsert", !.attempt = 2], "connect", "none")]
    /\ conns' = [conns EXCEPT ![r] = Append(SetConn(r, Closed(Conn(r)))[r], NewConn)]
    /\ UNCHANGED <<ai_eval, clock, starts, faults, limits, calls, extractVars,
                   graphVars, toolVars,
                   schedVars>>

\* lines 315-319: conn.close(); conn = get_db_conn()
Reconnect(r) ==
    /\ runs[r].pc = "reconnect"
    /\ runs' = [runs EXCEPT ![r] = Logged([@ EXCEPT !.pc = "ensure2"], "connect", "none")]
    /\ conns' = [conns EXCEPT ![r] = Append(SetConn(r, Closed(Conn(r)))[r], NewConn)]
    /\ UNCHANGED <<ai_eval, clock, starts, faults, limits, calls, extractVars,
                   graphVars, toolVars,
                   schedVars>>

\* get_db_conn raises: `conn` still names the closed connection.
ReconnectFails(r) ==
    /\ runs[r].pc = "reconnect"
    /\ Fault
    /\ runs' = [runs EXCEPT ![r] = Skip(Logged(@, "connect", "OperationalError"))]
    /\ conns' = SetConn(r, Closed(Conn(r)))
    /\ UNCHANGED <<ai_eval, clock, starts, limits, calls, extractVars, graphVars, toolVars,
                   schedVars>>

\* lines 320-322: ensure_ai_eval_table(conn), then the second attempt
EnsureAgain(r) ==
    /\ runs[r].pc = "ensure2"
    /\ runs' = [runs EXCEPT ![r] =
           Logged([@ EXCEPT !.pc = "upsert", !.attempt = 2], "ensure", "none")]
    /\ UNCHANGED <<ai_eval, clock, conns, starts, faults, limits, calls,
                   extractVars, graphVars, toolVars,
                   schedVars>>

\* ... or raises: the connection is lost, or the statement is cancelled and
\* nothing rolls back.
EnsureAgainFails(r, how) ==
    /\ runs[r].pc = "ensure2"
    /\ Fault
    /\ runs' = [runs EXCEPT ![r] = Skip(Logged(@, "ensure", "OperationalError"))]
    /\ conns' = SetConn(r, IF how = "lost" THEN Lost(Conn(r)) ELSE Failed(Conn(r)))
    /\ UNCHANGED <<ai_eval, clock, starts, limits, calls, extractVars, graphVars, toolVars,
                   schedVars>>

\* lines 327-329: return results; finally conn.close()
Finish(r) ==
    /\ runs[r].pc = "loop"
    /\ runs[r].idx > Len(runs[r].fixture_ids)
    /\ runs' = [runs EXCEPT ![r] = Logged([@ EXCEPT !.pc = "returned"], "close", "none")]
    /\ conns' = SetConn(r, Closed(Conn(r)))
    /\ UNCHANGED <<ai_eval, clock, starts, faults, limits, calls, extractVars,
                   graphVars, toolVars,
                   schedVars>>

InitBatch ==
    /\ ai_eval = {}
    /\ clock = 0
    /\ starts = 0
    /\ faults = 0
    /\ limits = [runs |-> MaxRuns, faults |-> MaxFaults, days |-> MaxDay]
    /\ calls = {}
    /\ runs = [r \in RunIds |-> IdleRun]
    /\ conns = [r \in RunIds |-> <<>>]

\* The steps of run r after its start, and those among them in which a call
\* fails.
Proceed(r) ==
    \/ EnsureTable(r)
    \/ \E today \in 0..MaxDay : Fetch(r, today)
    \/ \E empty \in BOOLEAN : Generate(r, empty)
    \/ ShortCircuit(r)
    \/ \E answer \in GoodAnswers \cup OddAnswers \cup BadAnswers : Summarize(r, answer)
    \/ UpsertExecute(r)
    \/ \E how \in {"lost", "cancel"} : UpsertExecuteFails(r, how)
    \/ UpsertCommit(r)
    \/ Reconnect(r)
    \/ EnsureAgain(r)
    \/ Finish(r)

Falter(r) ==
    \/ EnsureTableFails(r)
    \/ FetchFails(r)
    \/ GenerateRaises(r)
    \/ \E applied \in BOOLEAN : UpsertCommitFails(r, applied)
    \/ ReconnectFails(r)
    \/ \E how \in {"lost", "cancel"} : EnsureAgainFails(r, how)

RunStep(r) ==
    \/ \E kind \in {"upcoming", "catchup"} : Start(r, kind)
    \/ Proceed(r)

RunFails(r) ==
    \/ \E kind \in {"upcoming", "catchup"} : StartFails(r, kind)
    \/ Falter(r)

\* One run after another, with every failure.
NextBatch == RunStep(1) \/ RunFails(1)

\* Two runs side by side, and one failure: a report that is empty, an answer
\* of the extractor that is no decision, or the upsert statement.
NextConcurrent == \E r \in RunIds : RunStep(r)

\* ---------------------------------------------------------- scheduler
\* timedelta(days=1) and the target hour, 01:00 UTC, in hours.
Day == 24
TargetHour == 1
\* How long a run takes, in hours: under an hour, an hour, over a day.
RunHours == {0, 1, 25}

\* Mutant of seconds_until_next_utc_hour: `now > target`.
seconds_until_next_utc_hour_Strict(t) ==
    LET target == (t \div Day) * Day + TargetHour
    IN  IF t > target THEN target + Day - t ELSE target - t

\* _seconds_until_next_utc_hour, in hours: today's 01:00, or tomorrow's when
\* today's is not ahead.
seconds_until_next_utc_hour(t) ==
    LET target == (t \div Day) * Day + TargetHour
    IN  IF t >= target THEN target + Day - t ELSE target - t

\* The coroutine: where it stands ("top" of the loop, "sleeping" in
\* asyncio.sleep, "running" in asyncio.to_thread, "stopped" after the
\* break), the delay it computed, the slot of the run its thread executes,
\* and whether task.cancel() was called.
NoSched == [pc |-> "none", delay |-> 0, slot |-> 0, cancelled |-> FALSE]

InitSchedIdle ==
    /\ sched = NoSched
    /\ now_utc = 0

\* _on_startup: the task is created at any hour of the day.
InitSched ==
    /\ sched = [NoSched EXCEPT !.pc = "top"]
    /\ now_utc \in 0..(Day - 1)

\* lines 83-89: delay = _seconds_until_next_utc_hour(1)
Schedule ==
    /\ sched.pc = "top"
    /\ sched' = [sched EXCEPT !.pc = "sleeping",
                              !.delay = seconds_until_next_utc_hour(now_utc)]
    /\ UNCHANGED <<now_utc, extractVars, graphVars, batchVars, toolVars>>

\* lines 91-93: the sleep ends and a thread runs run_ai_eval, whose first
\* call is get_db_conn() ...
Wake(r) ==
    /\ sched.pc = "sleeping"
    /\ now_utc' = now_utc + sched.delay
    /\ Begin(r, "upcoming")
    /\ sched' = [sched EXCEPT !.pc = "running", !.slot = r]
    /\ UNCHANGED <<extractVars, graphVars, toolVars>>

\* ... which raises.
WakeFails(r) ==
    /\ sched.pc = "sleeping"
    /\ now_utc' = now_utc + sched.delay
    /\ BeginFails(r, "upcoming")
    /\ sched' = [sched EXCEPT !.pc = "running", !.slot = r]
    /\ UNCHANGED <<extractVars, graphVars, toolVars>>

\* Mutant of OnException: no `except Exception` clause, the coroutine ends.
OnException_Ends(s) == [s EXCEPT !.pc = "stopped"]

\* lines 98-99: the exception of the run is logged and the loop goes on.
OnException(s) == [s EXCEPT !.pc = "top"]

\* await asyncio.to_thread(run_ai_eval) returns or raises, d hours after
\* the run began.
Done(d) ==
    /\ sched.pc = "running"
    /\ runs[sched.slot].pc \in {"returned", "raised"}
    /\ sched' = IF runs[sched.slot].pc = "raised" THEN OnException(sched)
                ELSE [sched EXCEPT !.pc = "top"]
    /\ now_utc' = now_utc + d
    /\ UNCHANGED <<extractVars, graphVars, batchVars, toolVars>>

\* _on_shutdown: task.cancel().  CancelledError is raised at the await the
\* coroutine stands at, or at its next one (lines 95-97: break); a thread
\* that is running goes on.
Cancel ==
    /\ sched.pc \in {"top", "sleeping", "running"}
    /\ sched' = [sched EXCEPT !.pc = "stopped", !.cancelled = TRUE]
    /\ UNCHANGED <<now_utc, extractVars, graphVars, batchVars, toolVars>>

NextScheduler ==
    \/ Schedule
    \/ \E r \in RunIds : Wake(r)
    \/ \E r \in RunIds : WakeFails(r)
    \/ \E d \in RunHours : Done(d)
    \/ Cancel
    \/ \E r \in RunIds : Proceed(r)
    \/ \E r \in RunIds : Falter(r)

InitG == InitGraph /\ InitExtractIdle /\ InitBatch /\ InitToolsIdle /\ InitSchedIdle
InitE == InitExtract /\ InitGraph /\ InitBatch /\ InitToolsIdle /\ InitSchedIdle
InitB == InitBatch /\ InitGraph /\ InitExtractIdle /\ InitToolsIdle /\ InitSchedIdle
InitT == InitTools /\ InitGraph /\ InitExtractIdle /\ InitBatch /\ InitSchedIdle
\* The scheduler with two runs and two failures.
InitS ==
    /\ InitSched /\ InitGraph /\ InitExtractIdle /\ InitToolsIdle
    /\ ai_eval = {}
    /\ clock = 0
    /\ starts = 0
    /\ faults = 0
    /\ limits = [runs |-> 2, faults |-> 2, days |-> 0]
    /\ calls = {}
    /\ runs = [r \in RunIds |-> IdleRun]
    /\ conns = [r \in RunIds |-> <<>>]
InitC ==
    /\ InitGraph /\ InitExtractIdle /\ InitToolsIdle /\ InitSchedIdle
    /\ ai_eval = {}
    /\ clock = 0
    /\ starts = 0
    /\ faults = 0
    /\ limits = [runs |-> 2, faults |-> 1, days |-> 0]
    /\ calls = {}
    /\ runs = [r \in RunIds |-> IdleRun]
    /\ conns = [r \in RunIds |-> <<>>]

SpecGraph == InitG /\ [][NextGraph]_vars
SpecExtract == InitE /\ [][Extract]_vars
Spec == InitB /\ [][NextBatch]_vars
SpecConcurrent == InitC /\ [][NextConcurrent]_vars
SpecTools == InitT /\ [][CallTool]_vars
SpecScheduler == InitS /\ [][NextScheduler]_vars

\* ============================================================ claims
Unique(table) == \A x, y \in table : x.fixture_id = y.fixture_id => x = y
Ids(table) == {row.fixture_id : row \in table}
RowsOf(table, f) == {row \in table : row.fixture_id = f}

\* The row a call of upsert_ai_eval with arguments (md, d) writes for f.
Carries(row, f, md, d) ==
    /\ row.fixture_id = f
    /\ row.report_md = md
    /\ row.if_bet = d["if_bet"].v
    /\ row.predict_winner = d["predict_winner"].v
    /\ row.confidence = d["confidence"]
    /\ row.key_tag_evidence = Get(d, "key_tag_evidence", "")

\* C1: an upsert for fixture f that commits leaves exactly one row for f; the
\* row has the report and the four decision fields of that call and its
\* updated_at is the call's NOW(); if f had a row, its created_at is kept and
\* its updated_at has advanced, else created_at is the call's NOW() too.  The
\* other rows are untouched.
C1_Step(r) ==
    LET f == Fid(r)
        now == Conn(r).now
        old == RowsOf(ai_eval, f)
        new == RowsOf(ai_eval', f)
    IN  /\ Cardinality(new) = 1
        /\ \A row \in new :
              /\ Carries(row, f, runs[r].md, runs[r].decision[1])
              /\ row.updated_at = now
              /\ \A o \in old :
                    row.created_at = o.created_at /\ row.updated_at > o.updated_at
              /\ old = {} => row.created_at = now
        /\ ai_eval' \ new = ai_eval \ old

C1_UpsertTwice ==
    [][\A r \in RunIds : (runs[r].pc = "commit" /\ ai_eval' # ai_eval) => C1_Step(r)]_vars

\* A second upsert of fixture 102, with another report and another decision
\* than the first, has committed.
C1_Witness ==
    \E row \in ai_eval, c \in calls :
        /\ row.fixture_id = 102 /\ c.fid = 102
        /\ c.md = Report(1) /\ c.decision["predict_winner"] = I(3)
        /\ row.report_md = Report(2) /\ row.predict_winner = 0
        /\ row.created_at < row.updated_at

\* C2: the table never holds two rows for one fixture id, and no step
\* removes a fixture id from it.
C2_OnePerFixture ==
    /\ [](Unique(ai_eval))
    /\ [][Ids(ai_eval) \subseteq Ids(ai_eval')]_vars

\* Two runs have ended, both fixtures have a row, one of them written twice.
C2_Witness ==
    /\ starts = 2 /\ runs[1].pc = "returned"
    /\ Ids(ai_eval) = {101, 102}
    /\ \E row \in ai_eval : row.created_at # row.updated_at

\* C3: with two runs side by side, each fixture has at most one row, and
\* the report and the decision fields of a row are those of one call of
\* upsert_ai_eval.
C3_OneCall ==
    \A row \in ai_eval :
        /\ Cardinality(RowsOf(ai_eval, row.fixture_id)) = 1
        /\ \E c \in calls : Carries(row, c.fid, c.md, c.decision)

\* Both runs are in flight and both have committed the same fixture, with
\* different reports and different decisions.
C3_Witness ==
    /\ runs[1].pc \notin Ended /\ runs[2].pc \notin Ended
    /\ \E i \in 1..Len(runs[1].results), j \in 1..Len(runs[2].results) :
          /\ runs[1].results[i].fixture_id = runs[2].results[j].fixture_id
          /\ runs[1].results[i].predict_winner # runs[2].results[j].predict_winner

\* The log of run r about fixture f, and the calls of upsert_ai_eval in it.
LogOf(r, f) == SelectSeq(runs[r].log, LAMBDA e : e.fid = f)
CallsOf(r, f, op) == SelectSeq(LogOf(r, f), LAMBDA e : e.op = op)
Has(r, f, op, exc) ==
    \E k \in 1..Len(LogOf(r, f)) : LogOf(r, f)[k].op = op /\ LogOf(r, f)[k].exc = exc
InResults(r, f) == \E k \in 1..Len(runs[r].results) : runs[r].results[k].fixture_id = f

\* C4: in a run that has returned and in which some fixture raised, every
\* other fixture that got its report and its decision, whose values the
\* table's columns hold and during whose processing the store signalled no
\* failure, has been persisted and is in the results.
C4_Isolation ==
    \A r \in RunIds : runs[r].pc = "returned" =>
        \A i \in 1..Len(runs[r].fixture_ids) :
            LET f == runs[r].fixture_ids[i] IN
            (/\ Len(CallsOf(r, f, "upsert")) > 0
             /\ ~Has(r, f, "upsert", "DataError")
             /\ \A k \in 1..Len(LogOf(r, f)) : LogOf(r, f)[k].exc # "OperationalError"
             /\ \E k \in 1..Len(runs[r].log) :
                    runs[r].log[k].fid \notin {0, f} /\ runs[r].log[k].exc # "none")
            => (InResults(r, f) /\ Exists(ai_eval, f))

\* C5.  The first attempt of fixture f raised an OperationalError: in
\* cur.execute or in conn.commit.
FirstFailed(r, f) ==
    Has(r, f, "upsert", "OperationalError") \/ Has(r, f, "commit", "OperationalError")
Reconnected(r, f) == Has(r, f, "connect", "none") /\ Has(r, f, "ensure", "none")
Persisted(r, f) == Has(r, f, "commit", "none")

\* C5 as stated: a fixture whose first upsert raised an OperationalError
\* gets its second attempt, whatever else happens.
C5_Original ==
    \A r \in RunIds : \A i \in 1..Len(runs[r].fixture_ids) :
        LET f == runs[r].fixture_ids[i] IN
        (runs[r].idx > i /\ FirstFailed(r, f)) => Len(CallsOf(r, f, "upsert")) = 2

\* C5 as amended: the second attempt is made exactly when the reconnect and
\* the schema check on the new connection succeed.
C5_Retry ==
    \A r \in RunIds :
        /\ runs[r].pc = "raised" => runs[r].idx = 0
        /\ \A i \in 1..Len(runs[r].fixture_ids) :
              LET f == runs[r].fixture_ids[i]
                  ups == CallsOf(r, f, "upsert")
              IN  /\ Len(ups) <= 2
                  /\ Len(CallsOf(r, f, "generate")) <= 1
                  /\ Len(CallsOf(r, f, "summarize")) <= 1
                  /\ Len(ups) = 2 =>
                        /\ ups[1].args = ups[2].args
                        /\ FirstFailed(r, f) /\ Reconnected(r, f)
                        /\ Len(conns[r]) >= 2
                        /\ \A k \in 1..(Len(conns[r]) - 1) : conns[r][k].status = "closed"
                  /\ runs[r].idx > i =>
                        /\ FirstFailed(r, f) => (Len(ups) = 2 <=> Reconnected(r, f))
                        /\ FirstFailed(r, f) => Has(r, f, "connect", "none")
                                                \/ Has(r, f, "connect", "OperationalError")
                        /\ InResults(r, f) <=> Persisted(r, f)

\* Fixture 101's two attempts both failed, it is not in the results, and the
\* run has gone on to fixture 102 and persisted it.
C5_Witness ==
    /\ Len(CallsOf(1, 101, "upsert")) = 2
    /\ ~Persisted(1, 101) /\ ~InResults(1, 101)
    /\ InResults(1, 102)

\* C6: graph.invoke does not end in GraphRecursionError: the loop is cut
\* and the run finalizes with a report.
C6_Finalizes == node # "GraphRecursionError"

\* The responses of the model in the message history.
Responses == SelectSeq(messages, LAMBDA m : m.type = "ai")

\* C7: the report generate_markdown_report returns is the text of the last
\* response of the model; that response carries no tool request and is the
\* only one that carries none.
C7_LastResponse ==
    (caller = "batch" /\ outcome.exc = "none") =>
        LET n == Len(Responses) IN
        /\ n >= 1
        /\ Val(outcome) = Responses[n].content
        /\ \A k \in 1..n : Responses[k].tool_calls = 0 <=> k = n

\* A report was returned after a response that asked for tools and had
\* another text, and a report was returned empty.
C7_Witness ==
    /\ caller = "batch" /\ outcome.exc = "none"
    /\ Len(Responses) >= 2
    /\ Responses[1].content = "A"
    /\ Val(outcome) = ""

\* C8: the state graph.invoke returns holds no messages.
C8_NoMessages == node = "END" => messages = <<>>

\* The answer is one of the failures the claim lists.
RaisesOn(x, conv(_)) == conv(x).exc # "none"
WrongType(obj) ==
    \/ RaisesOn(Get(obj, "if_bet", I(0)), PyInt)
    \/ RaisesOn(Get(obj, "predict_winner", I(1)), PyInt)
    \/ RaisesOn(Get(obj, "confidence", F(0)), PyFloat)
Parsed == parse_json_line(resp.text, resp.raw)
FailedAnswer ==
    \/ resp.fails
    \/ Parsed.exc # "none"
    \/ Val(Parsed).kind # "dict"
    \/ WrongType(Val(Parsed).obj)

\* C9: summarize_and_decide raises nothing, and on a failed answer it
\* returns the all-defaults decision.
C9_NeverRaises ==
    decided # Pending =>
        /\ decided.exc = "none"
        /\ FailedAnswer => Val(decided) = DefaultDecision

\* C10: an answer whose predict_winner is none of 0, 1 and 3 gives a
\* decision whose predict_winner is 1.
C10_EnumClosure ==
    (/\ decided # Pending
     /\ ~resp.fails /\ Parsed.exc = "none" /\ Val(Parsed).kind = "dict"
     /\ "predict_winner" \in DOMAIN Val(Parsed).obj
     /\ Val(Parsed).obj["predict_winner"] \notin {I(0), I(1), I(3)})
    => (decided.exc = "none" /\ Val(decided)["predict_winner"] = I(1))

\* The object the extractor's model answered for fixture f in run r: the
\* argument of the one call of summarize_and_decide that returned.
Extracted(r, f) ==
    LET sm == CallsOf(r, f, "summarize") IN Len(sm) = 1 /\ sm[1].exc = "none"
RawOf(r, f) == CallsOf(r, f, "summarize")[1].args[1].raw
RowOf(f) == CHOOSE row \in ai_eval : row.fixture_id = f

\* A JSON number, in tenths.
IsNumber(c) == c.t \in {"int", "float"}
Tenths(c) == IF c.t = "int" THEN 10 * c.v ELSE c.v

\* C11: the confidence of a decision is 1.0 when the extracted number c is
\* above 1, 0.0 when c is below 0 and c otherwise, and 0.0 when the answer
\* has no confidence; it lies in [0, 1] whatever was extracted (NaN too), and
\* so does the confidence of every row, which is that of a call of
\* upsert_ai_eval for the row's fixture.
C11_OfAnswer(raw, conf) ==
    /\ 0 <= conf /\ conf <= 10
    /\ "confidence" \notin DOMAIN raw => conf = 0
    /\ ("confidence" \in DOMAIN raw /\ IsNumber(raw["confidence"])) =>
          LET c == Tenths(raw["confidence"])
          IN  conf = IF c > 10 THEN 10 ELSE IF c < 0 THEN 0 ELSE c

C11_Clamp ==
    /\ \A r \in RunIds : \A i \in 1..Len(runs[r].fixture_ids) :
          LET f == runs[r].fixture_ids[i]
              ups == CallsOf(r, f, "upsert")
          IN  Extracted(r, f) =>
                 \A k \in 1..Len(ups) :
                     C11_OfAnswer(RawOf(r, f), ups[k].args[2]["confidence"])
    /\ \A row \in ai_eval :
          /\ 0 <= row.confidence /\ row.confidence <= 10
          /\ \E c \in calls :
                c.fid = row.fixture_id /\ c.decision["confidence"] = row.confidence

\* One run has stored 1.0 for an extracted 1.7 and 0.0 for an extracted -0.3.
C11_Witness ==
    \E r \in RunIds : \E f, g \in Ids(ai_eval) :
        /\ InResults(r, f) /\ Extracted(r, f)
        /\ RawOf(r, f) = OtherObject /\ RowOf(f).confidence = 10
        /\ InResults(r, g) /\ Extracted(r, g)
        /\ RawOf(r, g) = OddObject /\ RowOf(g).confidence = 0

\* C12: the if_bet of a decision is 1 when the answer's if_bet is 1 and 0 for
\* every other integer and for an answer without if_bet.
C12_PlaceBet ==
    (/\ decided # Pending /\ decided.exc = "none"
     /\ ~resp.fails /\ Parsed.exc = "none" /\ Val(Parsed).kind = "dict")
    => LET raw == Val(Parsed).obj
       IN  Val(decided)["if_bet"] =
               IF "if_bet" \in DOMAIN raw /\ raw["if_bet"] = I(1) THEN I(1) ELSE I(0)

\* generate_markdown_report returned the empty string for fixture f.
EmptyReport(r, f) ==
    \E k \in 1..Len(LogOf(r, f)) :
        LET e == LogOf(r, f)[k]
        IN  e.op = "generate" /\ e.exc = "none" /\ e.args = <<"">>

NoBet(if_bet, predict_winner, confidence, key_tag_evidence) ==
    if_bet = 0 /\ predict_winner = 1 /\ confidence = 0 /\ key_tag_evidence = ""

\* C13: for a fixture whose report came back empty, summarize_and_decide is
\* not called, upsert_ai_eval is called with the empty report and the no-bet
\* decision, and the row a commit of it leaves is (0, 1, 0.0, "").
C13_OfFixture(r, i) ==
    LET f == runs[r].fixture_ids[i]
        ups == CallsOf(r, f, "upsert")
    IN  EmptyReport(r, f) =>
            /\ Len(CallsOf(r, f, "summarize")) = 0
            /\ runs[r].idx > i => Len(ups) >= 1
            /\ \A k \in 1..Len(ups) :
                  /\ ups[k].args[1] = ""
                  /\ NoBet(ups[k].args[2]["if_bet"].v, ups[k].args[2]["predict_winner"].v,
                           ups[k].args[2]["confidence"],
                           Get(ups[k].args[2], "key_tag_evidence", ""))

C13_Commit(r) ==
    LET row == CHOOSE x \in ai_eval' : x.fixture_id = Fid(r)
    IN  /\ row.report_md = ""
        /\ NoBet(row.if_bet, row.predict_winner, row.confidence, row.key_tag_evidence)

C13_ShortCircuit ==
    /\ [](\A r \in RunIds : \A i \in 1..Len(runs[r].fixture_ids) : C13_OfFixture(r, i))
    /\ [][\A r \in RunIds :
            (runs[r].pc = "commit" /\ ai_eval' # ai_eval /\ EmptyReport(r, Fid(r)))
            => C13_Commit(r)]_vars

\* A fixture with an empty report is in the results and has its no-bet row,
\* beside a fixture of the same run that went through the extractor.
C13_Witness ==
    \E r \in RunIds : \E f, g \in Ids(ai_eval) :
        /\ EmptyReport(r, f) /\ InResults(r, f)
        /\ RowOf(f).report_md = "" /\ RowOf(f).predict_winner = 1
        /\ Extracted(r, g) /\ InResults(r, g) /\ RowOf(g).predict_winner = 3

\* The fixtures of the configured leagues that kick off on one of the days.
KickOffIn(days) ==
    {g.fixture_id : g \in {x \in api_football_fixtures :
        x.league_id \in parse_league_ids /\ x.fixture_date \in days}}
Ascending(ids) == \A i, j \in 1..Len(ids) : i < j => ids[i] < ids[j]
Selected(r) == {runs[r].fixture_ids[i] : i \in 1..Len(runs[r].fixture_ids)}
HasSelected(r) == runs[r].idx >= 1

\* C14: a catch-up run selects the fixtures of today and tomorrow that had
\* no row when it selected, in ascending order of fixture id, and writes no
\* row of a fixture that had one then.
C14_CatchUp ==
    /\ [](\A r \in RunIds : (runs[r].kind = "catchup" /\ HasSelected(r)) =>
            /\ Selected(r) =
                   KickOffIn({runs[r].today, runs[r].today + 1}) \ runs[r].at_fetch
            /\ Ascending(runs[r].fixture_ids)
            /\ runs[r].written \cap runs[r].at_fetch = {})
    /\ [][\A r \in RunIds : (runs[r].kind = "catchup" /\ runs[r].pc = "commit") =>
            \A f \in runs[r].at_fetch : RowsOf(ai_eval', f) = RowsOf(ai_eval, f)]_vars

\* A catch-up run has left out a fixture of its window that had a row, and
\* has written the other one.
C14_Witness ==
    \E r \in RunIds :
        /\ runs[r].kind = "catchup" /\ HasSelected(r)
        /\ KickOffIn({runs[r].today, runs[r].today + 1}) \cap runs[r].at_fetch # {}
        /\ runs[r].written # {}

\* C15: an upcoming run selects the fixtures of the configured leagues that
\* kick off tomorrow, those that have a row included; it generates a report
\* for each, and a commit for a fixture that had a row replaces the row's
\* report and decision with the run's.
C15_Commit(r) ==
    LET f == Fid(r)
        old == RowOf(f)
        new == CHOOSE x \in ai_eval' : x.fixture_id = f
    IN  /\ Carries(new, f, runs[r].md, runs[r].decision[1])
        /\ new.updated_at > old.updated_at

C15_Upcoming ==
    /\ [](\A r \in RunIds : (runs[r].kind = "upcoming" /\ HasSelected(r)) =>
            /\ Selected(r) = KickOffIn({runs[r].today + 1})
            /\ Ascending(runs[r].fixture_ids)
            /\ \A i \in 1..Len(runs[r].fixture_ids) :
                  runs[r].idx > i =>
                      Len(CallsOf(r, runs[r].fixture_ids[i], "generate")) = 1)
    /\ [][\A r \in RunIds :
            (/\ runs[r].kind = "upcoming" /\ runs[r].pc = "commit"
             /\ ai_eval' # ai_eval /\ Fid(r) \in runs[r].at_fetch)
            => C15_Commit(r)]_vars

\* An upcoming run has selected a fixture that had a row and has put its own
\* report in the row.
C15_Witness ==
    \E r \in RunIds : \E f \in Ids(ai_eval) :
        /\ runs[r].kind = "upcoming"
        /\ f \in Selected(r) \cap runs[r].at_fetch \cap runs[r].written
        /\ RowOf(f).report_md = Report(runs[r].no)
        /\ RowOf(f).created_at < RowOf(f).updated_at

ResultIds(r) == [k \in 1..Len(runs[r].results) |-> runs[r].results[k].fixture_id]

\* C16 as stated: when a run has returned, a fixture is in its results if
\* and only if a commit of the run for that fixture took effect in the store.
C16_Original ==
    \A r \in RunIds : runs[r].pc = "returned" =>
        \A f \in Selected(r) : InResults(r, f) <=> f \in runs[r].written

\* C16 as amended: a fixture is in the results if and only if a call of
\* upsert_ai_eval for it returned; a listed fixture has had its commit take
\* effect; the list is in ascending order of fixture id, without repeats, and
\* holds selected fixtures only.
C16_Results ==
    \A r \in RunIds :
        /\ Ascending(ResultIds(r))
        /\ \A k \in 1..Len(runs[r].results) :
              /\ ResultIds(r)[k] \in Selected(r)
              /\ ResultIds(r)[k] \in runs[r].written
        /\ \A i \in 1..Len(runs[r].fixture_ids) :
              LET f == runs[r].fixture_ids[i] IN
              /\ InResults(r, f) <=> Persisted(r, f)
              /\ (runs[r].idx > i /\ ~Persisted(r, f)) =>
                     \E k \in 1..Len(LogOf(r, f)) : LogOf(r, f)[k].exc # "none"

\* A run has returned two candidates' worth of work: one fixture is listed,
\* the other is not although the store applied its commit.
C16_Witness ==
    \E r \in RunIds :
        /\ runs[r].pc = "returned"
        /\ Len(runs[r].results) >= 1
        /\ \E f \in runs[r].written : ~InResults(r, f)

\* C17: when a run has ended, by return or by exception, every connection
\* it opened is closed; while it runs, every connection but its current one
\* is closed.
C17_Closed ==
    \A r \in RunIds : \A k \in 1..Len(conns[r]) :
        (runs[r].pc \in {"returned", "raised"} \/ k < Len(conns[r]))
        => conns[r][k].status = "closed"

\* A run that reconnected has returned.
C17_Witness ==
    \E r \in RunIds :
        /\ runs[r].pc = "returned"
        /\ Len(conns[r]) >= 2
        /\ Has(r, 101, "commit", "OperationalError")

\* The call a run that raised ended on.
LastCall(r) == runs[r].log[Len(runs[r].log)]

\* C18 as stated: a run that ends with an exception ended in the initial
\* get_db_conn or in ensure_ai_eval_table.
C18_Original ==
    \A r \in RunIds : runs[r].pc = "raised" => LastCall(r).op \in {"connect", "ensure"}

\* C18 as amended: a run that ends with an exception ended in the initial
\* get_db_conn, in ensure_ai_eval_table or in the selection of candidates,
\* before it processed any fixture; a run in which the processing of a
\* fixture raised has not ended with an exception.
C18_Fatal ==
    \A r \in RunIds :
        /\ runs[r].pc = "raised" =>
              /\ LastCall(r).op \in {"connect", "ensure", "fetch"}
              /\ LastCall(r).exc # "none"
              /\ runs[r].idx = 0 /\ runs[r].fixture_ids = <<>>
              /\ \A k \in 1..Len(runs[r].log) :
                    runs[r].log[k].op \notin {"generate", "summarize", "upsert", "commit"}
        /\ (\E k \in 1..Len(runs[r].log) :
                runs[r].log[k].fid # 0 /\ runs[r].log[k].exc # "none")
           => runs[r].pc # "raised"

\* A run in which report generation raised for one fixture and the extractor
\* raised for the other has returned.
C18_Witness ==
    \E r \in RunIds :
        /\ runs[r].pc = "returned"
        /\ Has(r, 101, "generate", "Exception")
        /\ Has(r, 102, "summarize", "ValueError")

\* C19: get_fundamentals answers with the report when graph.invoke returned
\* and the final response of the model has text, with HTTP 502 when that
\* response has none, and with HTTP 500 when graph.invoke raised; it never
\* answers 200 with an empty body.
C19_OnDemand ==
    (caller = "ondemand" /\ outcome # Pending) =>
        /\ node = "END" =>
              LET final == Responses[Len(Responses)].content
              IN  outcome = IF final = "" THEN Raise("HTTP 502") ELSE Ret(final)
        /\ node \in Raised => outcome = Raise("HTTP 500")
        /\ outcome.exc = "none" => Val(outcome) # ""
        /\ outcome.exc \in {"none", "HTTP 502", "HTTP 500"}

\* After a round of tools the model's final response had no text, and the
\* request was answered with 502.
C19_Witness ==
    /\ caller = "ondemand" /\ outcome = Raise("HTTP 502")
    /\ Len(Responses) >= 2 /\ Responses[1].content = "A"

\* The data service failed, or every entry of its response lacks a field.
ServiceFailed == reply.kind \in {"network error", "http error", "unparsable"}
EntriesLack ==
    /\ reply.kind = "ok" /\ reply.body.json = "response"
    /\ \A k \in 1..Len(reply.body.response) : reply.body.response[k] = "lacks"

\* C20: whatever the data service answers, a capability raises nothing, and
\* it returns the empty result when the request failed, the status was an
\* error, the body was no JSON or the entries of the response lack fields.
C20_NeverRaises ==
    (tool_result # Pending /\ (ServiceFailed \/ EntriesLack)) =>
        (tool_result.exc = "none" /\ Val(tool_result) = <<>>)

\* The model responded: the analyst node appended its response.
Responded == node = "Fundamentals Analyst" /\ messages' # messages
\* The tool node ran the capabilities.
ToolsRan == node = "tools_fundamentals" /\ messages' # messages
Last(msgs) == msgs[Len(msgs)]

NewMessages == SubSeq(messages', Len(messages) + 1, Len(messages'))
OnePerRequest ==
    /\ Len(messages') = Len(messages) + Last(messages).tool_calls
    /\ \A k \in 1..Len(NewMessages) : NewMessages[k].type = "tool"

Positions(s, c) == {i \in 1..Len(s) : s[i] = c}
Least(P) == CHOOSE i \in P : \A j \in P : i <= j
Greatest(P) == CHOOSE i \in P : \A j \in P : j <= i
ValidJson(s) == JsonLoads(s, resp.raw).exc = "none"
IsObject(s) == ValidJson(s) /\ Val(JsonLoads(s, resp.raw)).kind = "dict"
ObjectOf(s) == Val(JsonLoads(s, resp.raw)).obj
\* The text from the first "{" to the last "}", <<>> when there is none.
Braced(s) ==
    LET opens == Positions(s, "{")
        closes == Positions(s, "}")
    IN  IF opens # {} /\ closes # {} /\ Greatest(closes) > Least(opens)
        THEN SubSeq(s, Least(opens), Greatest(closes))
        ELSE <<>>

\* C23: when the trimmed answer is a JSON object the decision is made of
\* it; when the trimmed answer is no JSON and the text from its first "{"
\* to its last "}" is, the decision is made of that object, a key it lacks
\* taking its default; in every other case (no braces, the last "}" before
\* the first "{", a substring that is no JSON) the decision is the default
\* one.
C23_Parsing ==
    (decided # Pending /\ ~resp.fails) =>
        LET s == Strip(resp.text) IN
        /\ IsObject(s) => decided = Normalize(ObjectOf(s))
        /\ (~ValidJson(s) /\ ValidJson(Braced(s))) =>
              /\ decided = Normalize(ObjectOf(Braced(s)))
              /\ \A key \in Keys \ DOMAIN ObjectOf(Braced(s)) :
                    Val(decided)[key] = DefaultDecision[key]
        /\ (~ValidJson(s) /\ ~ValidJson(Braced(s))) => decided = Ret(DefaultDecision)

\* An object without evidence tags stood after prose, and the decision was
\* made of the object.
C23_Witness ==
    /\ resp.text = <<"sp", "txt", "{", "mem", "}">>
    /\ resp.raw = PartObject
    /\ decided # Pending /\ decided.exc = "none"
    /\ Val(decided).if_bet = I(1) /\ Val(decided).key_tag_evidence = ""

\* The calls of a run that use its store connection.
StoreOps == {"ensure", "fetch", "upsert", "commit"}
UsesStore(e) == e.op \in StoreOps
Connects(e) == e.op = "connect" /\ e.exc = "none"

\* C24: in a run, a store operation that follows an OperationalError of a
\* store operation runs on a connection opened after that error.
C24_NeverReused ==
    \A r \in RunIds :
        LET log == runs[r].log IN
        \A j, k \in 1..Len(log) :
            (j < k /\ UsesStore(log[j]) /\ log[j].exc = "OperationalError"
                   /\ UsesStore(log[k])) =>
                \E m \in (j + 1)..(k - 1) : Connects(log[m])

\* C25 as stated: a run checks the schema once.
C25_Original ==
    \A r \in RunIds :
        Len(SelectSeq(runs[r].log, LAMBDA e : e.op = "ensure")) <= 1

\* C25: a run checks the schema right after it has connected and before it
\* selects its candidates; it checks the schema again right after every
\* connection it opens for a second attempt, and at no other time.
C25_SchemaCheck ==
    \A r \in RunIds :
        LET log == runs[r].log IN
        /\ \A k \in 1..Len(log) :
              log[k].op = "ensure" => k > 1 /\ Connects(log[k - 1])
        /\ \A k \in 1..(Len(log) - 1) :
              Connects(log[k]) => log[k + 1].op = "ensure"
        /\ \A k \in 1..Len(log) :
              log[k].op = "fetch" =>
                  k = 3 /\ log[2].op = "ensure" /\ log[2].exc = "none"
        /\ \A k \in 1..Len(log) :
              (log[k].op = "ensure" /\ k > 2) =>
                  log[k].fid # 0 /\ FirstFailed(r, log[k].fid)

\* A run has returned that checked the schema at its start and again for
\* the second attempt of fixture 102.
C25_Witness ==
    \E r \in RunIds :
        /\ runs[r].pc = "returned"
        /\ Len(SelectSeq(runs[r].log, LAMBDA e : e.op = "ensure")) = 2
        /\ Len(CallsOf(r, 102, "ensure")) = 1
        /\ Persisted(r, 102)

\* C26: when a run turns to a fixture after the first, its connection is
\* open and holds no failed transaction and no uncommitted row.
C26_CleanAtStart ==
    \A r \in RunIds :
        (runs[r].pc = "loop" /\ runs[r].idx \in 2..Len(runs[r].fixture_ids)) =>
            /\ Conn(r).status = "open"
            /\ Conn(r).txn # "inerror"
            /\ Conn(r).pending = <<>>

\* C27: every entry of a run's results has the fixture id and the four
\* fields of the decision, with the values of the fixture's row.
C27_Entries ==
    \A r \in RunIds : \A k \in 1..Len(runs[r].results) :
        LET e == runs[r].results[k] IN
        /\ DOMAIN e = {"fixture_id"} \cup Keys
        /\ Exists(ai_eval, e.fixture_id) =>
              LET row == RowOf(e.fixture_id) IN
              /\ row.if_bet = e.if_bet.v
              /\ row.predict_winner = e.predict_winner.v
              /\ row.confidence = e.confidence
              /\ row.key_tag_evidence = e.key_tag_evidence

\* C28: a row with an empty report has the no-bet decision, and so a row
\* with another decision has a report that is not empty.
C28_EmptyReportNoBet ==
    \A row \in ai_eval :
        /\ row.report_md = "" =>
              NoBet(row.if_bet, row.predict_winner, row.confidence, row.key_tag_evidence)
        /\ ~NoBet(row.if_bet, row.predict_winner, row.confidence, row.key_tag_evidence) =>
              row.report_md # ""

\* One fixture has a row written with an empty report, another a row with
\* a bet and a report.
C28_Witness ==
    \E x, y \in ai_eval :
        /\ x.report_md = "" /\ x.if_bet = 0 /\ x.predict_winner = 1
        /\ y.report_md # "" /\ y.if_bet = 1

\* A run is in flight; a step starts a run; the first 01:00 UTC after t.
InFlight(r) == runs[r].pc \notin Ended
RunStarts == starts' = starts + 1
NextTarget(t) == CHOOSE u \in (t + 1)..(t + Day) : u % Day = TargetHour

\* C29: no two runs the scheduler started are in flight together; the
\* scheduler starts a run only when no run is in flight, out of its sleep,
\* and at the end of a wait that it computed as the time to the next 01:00
\* UTC, which is more than 0 and at most a day.
C29_NoOverlap ==
    /\ [](\A r, q \in RunIds : (InFlight(r) /\ InFlight(q)) => r = q)
    /\ [][RunStarts =>
            /\ \A r \in RunIds : ~InFlight(r)
            /\ sched.pc = "sleeping"
            /\ sched.delay > 0 /\ sched.delay <= Day
            /\ now_utc' = now_utc + sched.delay
            /\ now_utc' = NextTarget(now_utc)]_vars

\* The first run ended at 01:00 sharp and the second began a whole day
\* later.
C29_Witness ==
    /\ starts = 2
    /\ sched.pc = "running" /\ sched.delay = Day
    /\ InFlight(sched.slot)

\* C30: when a run has raised, the coroutine goes back to the top of its
\* loop, and the run it starts next begins at the next 01:00 UTC; the
\* coroutine stops only when it is cancelled, and once stopped it starts no
\* run.
C30_KeepsRunning ==
    [][/\ (sched.pc = "running" /\ runs[sched.slot].pc = "raised"
            /\ sched'.pc # "running") =>
              (sched'.pc = "top" \/ sched'.cancelled)
       /\ (sched.pc = "top" /\ sched' # sched) =>
              (sched'.pc = "sleeping" \/ sched'.cancelled)
       /\ (RunStarts /\ starts >= 1) => now_utc' = NextTarget(now_utc)
       /\ (sched'.pc = "stopped" /\ sched.pc # "stopped") =>
              (sched'.cancelled /\ ~sched.cancelled)
       /\ sched.pc = "stopped" => (sched' = sched /\ starts' = starts)]_vars

\* The first run raised in get_db_conn and the scheduler sleeps until the
\* next 01:00.
C30_Witness ==
    /\ starts = 1
    /\ runs[1].pc = "raised" /\ LastCall(1).op = "connect"
    /\ sched.pc = "sleeping" /\ ~sched.cancelled
    /\ sched.delay = Day

=============================================================================
